---- MODULE Spec2Model ----
(***************************************************************************)
(* Health evaluation and alerting of the ZA Support backend: the settings  *)
(* loaded from the environment, the devices / health_data / alerts tables, *)
(* the alert engine and the request handlers that read and write them.     *)
(*                                                                         *)
(* Numbers: percentages and thresholds are Python floats, kept here as     *)
(* integers (only their order is ever used); datetimes are minutes on one  *)
(* clock, `now`.  An Optional value is the empty tuple (None) or a         *)
(* one-element tuple.  A table is the sequence of its rows in insertion    *)
(* order, a row's id being its position.                                   *)
(*                                                                         *)
(* A handler is one step, except where requests run against each other or  *)
(* fail half way: there submit_health is taken statement by statement,     *)
(* each worker with its own database session (`sessions`).                 *)
(***************************************************************************)
EXTENDS Integers, Sequences, FiniteSets, TLC

VARIABLES
    settings,      \* app.core.config.settings: the thresholds
    now,           \* what datetime.utcnow() returns
    devices,       \* table devices
    health_data,   \* table health_data
    alerts,        \* table alerts
    last,          \* the last request handled and its response
    sessions       \* the submit_health requests in progress, one per worker

vars == <<settings, now, devices, health_data, alerts, last, sessions>>

----------------------------------------------------------------------------
(* Bounds of the model *)

MaxTime == 15
MaxHealth == 2
MaxAlerts == 3
MaxStatusTime == 30

\* The clock advances in steps of a quarter of an hour.
TickSteps == {15}

\* How far the clock may advance while one submission is handled.
HandlerDelays == {0} \cup TickSteps

MachineIds == {"m1", ""}
ClientIds == {"c1"}

----------------------------------------------------------------------------
(* Optional values *)

None == <<>>
Some(v) == <<v>>
Opt(S) == {None} \cup {Some(v) : v \in S}

\* Python truthiness of a number and of an Optional datetime / row / string
TruthyNum(x) == x # 0
TruthyOpt(x) == x # None
TruthyStr(s) == s # ""

Min(S) == CHOOSE x \in S : \A y \in S : x <= y

\* Query.first() on a set of row positions: the first row in insertion
\* order, or None
First(rows) == IF rows = {} THEN None ELSE Some(Min(rows))

----------------------------------------------------------------------------
(* app/core/config.py *)

getenv(env, name, default) == IF name \in DOMAIN env THEN env[name] ELSE default

Settings(env) ==
    [CPU_CRITICAL     |-> getenv(env, "CPU_CRITICAL", 90),
     CPU_WARNING      |-> getenv(env, "CPU_WARNING", 75),
     MEMORY_CRITICAL  |-> getenv(env, "MEMORY_CRITICAL", 90),
     MEMORY_WARNING   |-> getenv(env, "MEMORY_WARNING", 80),
     DISK_CRITICAL    |-> getenv(env, "DISK_CRITICAL", 90),
     DISK_WARNING     |-> getenv(env, "DISK_WARNING", 80),
     BATTERY_CRITICAL |-> getenv(env, "BATTERY_CRITICAL", 20),
     THREAT_CRITICAL  |-> getenv(env, "THREAT_CRITICAL", 7)]

----------------------------------------------------------------------------
(* app/models/schemas.py *)

\* HealthSubmission: the fields a request leaves out take their defaults.
HealthSubmission(req) ==
    [machine_id      |-> req.machine_id,
     cpu_percent     |-> IF "cpu_percent" \in DOMAIN req THEN req.cpu_percent ELSE 0,
     memory_percent  |-> IF "memory_percent" \in DOMAIN req THEN req.memory_percent ELSE 0,
     disk_percent    |-> IF "disk_percent" \in DOMAIN req THEN req.disk_percent ELSE 0,
     battery_percent |-> IF "battery_percent" \in DOMAIN req
                         THEN Some(req.battery_percent) ELSE None,
     threat_score    |-> IF "threat_score" \in DOMAIN req THEN req.threat_score ELSE 0]

----------------------------------------------------------------------------
(* app/services/alert_engine.py *)

\* _make_alert that stamps resolved_at at creation
_make_alert_stamping_resolved_at(machine_id, severity, category, message, t) ==
    [machine_id  |-> machine_id,
     severity    |-> severity,
     category    |-> category,
     message     |-> message,
     timestamp   |-> t,
     resolved    |-> FALSE,
     resolved_at |-> Some(t)]

_make_alert(machine_id, severity, category, message, t) ==
    [machine_id  |-> machine_id,
     severity    |-> severity,
     category    |-> category,
     message     |-> message,
     timestamp   |-> t,
     resolved    |-> FALSE,
     resolved_at |-> None]

\* cpu_alerts with the warning check made after, not instead of, the critical one
cpu_alerts_no_elif(machine_id, data, t) ==
    LET cpu == data.cpu_percent IN
    (IF cpu >= settings.CPU_CRITICAL
     THEN <<_make_alert(machine_id, "critical", "cpu",
                        <<"CPU at", cpu, "sustained high usage">>, t)>>
     ELSE <<>>)
    \o (IF cpu >= settings.CPU_WARNING
        THEN <<_make_alert(machine_id, "warning", "cpu",
                           <<"CPU at", cpu, "elevated usage">>, t)>>
        ELSE <<>>)

cpu_alerts(machine_id, data, t) ==
    LET cpu == data.cpu_percent IN
    IF cpu >= settings.CPU_CRITICAL
    THEN <<_make_alert(machine_id, "critical", "cpu",
                       <<"CPU at", cpu, "sustained high usage">>, t)>>
    ELSE IF cpu >= settings.CPU_WARNING
    THEN <<_make_alert(machine_id, "warning", "cpu",
                       <<"CPU at", cpu, "elevated usage">>, t)>>
    ELSE <<>>

memory_alerts(machine_id, data, t) ==
    LET mem == data.memory_percent IN
    IF mem >= settings.MEMORY_CRITICAL
    THEN <<_make_alert(machine_id, "critical", "memory",
                       <<"Memory at", mem, "critical pressure">>, t)>>
    ELSE IF mem >= settings.MEMORY_WARNING
    THEN <<_make_alert(machine_id, "warning", "memory",
                       <<"Memory at", mem, "elevated usage">>, t)>>
    ELSE <<>>

disk_alerts(machine_id, data, t) ==
    LET disk == data.disk_percent IN
    IF disk >= settings.DISK_CRITICAL
    THEN <<_make_alert(machine_id, "critical", "disk",
                       <<"Disk at", disk, "critically full">>, t)>>
    ELSE IF disk >= settings.DISK_WARNING
    THEN <<_make_alert(machine_id, "warning", "disk",
                       <<"Disk at", disk, "running low">>, t)>>
    ELSE <<>>

\* battery_alerts with a missing battery_percent read as 0
battery_alerts_default_zero(machine_id, data, t) ==
    LET bat == IF data.battery_percent = None THEN 0 ELSE data.battery_percent[1] IN
    IF bat <= settings.BATTERY_CRITICAL
    THEN <<_make_alert(machine_id, "critical", "battery",
                       <<"Battery at", bat, "critically low">>, t)>>
    ELSE <<>>

battery_alerts(machine_id, data, t) ==
    LET bat == data.battery_percent IN
    IF bat # None /\ bat[1] <= settings.BATTERY_CRITICAL
    THEN <<_make_alert(machine_id, "critical", "battery",
                       <<"Battery at", bat[1], "critically low">>, t)>>
    ELSE <<>>

\* threat_alerts with a strict comparison
threat_alerts_strict(machine_id, data, t) ==
    LET threat == data.threat_score IN
    IF threat > settings.THREAT_CRITICAL
    THEN <<_make_alert(machine_id, "critical", "security",
                       <<"Threat score", threat, "security review required">>, t)>>
    ELSE <<>>

threat_alerts(machine_id, data, t) ==
    LET threat == data.threat_score IN
    IF threat >= settings.THREAT_CRITICAL
    THEN <<_make_alert(machine_id, "critical", "security",
                       <<"Threat score", threat, "security review required">>, t)>>
    ELSE <<>>

\* evaluate_health_data with the battery check made before the disk check
evaluate_health_data_battery_first(machine_id, data, t) ==
    cpu_alerts(machine_id, data, t)
        \o memory_alerts(machine_id, data, t)
        \o battery_alerts(machine_id, data, t)
        \o disk_alerts(machine_id, data, t)
        \o threat_alerts(machine_id, data, t)

\* The list evaluate_health_data returns; the caller's session receives the
\* same alerts in the same order (db.add in list order, then one flush).
evaluate_health_data(machine_id, data, t) ==
    cpu_alerts(machine_id, data, t)
        \o memory_alerts(machine_id, data, t)
        \o disk_alerts(machine_id, data, t)
        \o battery_alerts(machine_id, data, t)
        \o threat_alerts(machine_id, data, t)

----------------------------------------------------------------------------
(* app/models/models.py *)

\* Device without the column default of last_seen
Device_without_last_seen_default(machine_id, client_id, t) ==
    [machine_id    |-> machine_id,
     client_id     |-> client_id,
     last_seen     |-> None,
     registered_at |-> Some(t),
     is_active     |-> TRUE]

\* A Device row as inserted: last_seen, registered_at and is_active take
\* their column defaults at the INSERT, made at time t.
Device(machine_id, client_id, t) ==
    [machine_id    |-> machine_id,
     client_id     |-> client_id,
     last_seen     |-> Some(t),
     registered_at |-> Some(t),
     is_active     |-> TRUE]

HealthData(payload, t) ==
    [machine_id      |-> payload.machine_id,
     timestamp       |-> t,
     cpu_percent     |-> payload.cpu_percent,
     memory_percent  |-> payload.memory_percent,
     disk_percent    |-> payload.disk_percent,
     battery_percent |-> payload.battery_percent,
     threat_score    |-> payload.threat_score]

----------------------------------------------------------------------------
(* app/api/devices.py *)

\* db.query(Device).filter(Device.machine_id == machine_id).first()
find_device(machine_id) ==
    First({i \in DOMAIN devices : devices[i].machine_id = machine_id})

register_device(payload) ==
    LET device == find_device(payload.machine_id) IN
    /\ devices' =
         IF TruthyOpt(device)
         THEN [devices EXCEPT ![device[1]] =
                 [@ EXCEPT !.client_id = IF payload.client_id # None
                                         THEN payload.client_id ELSE @,
                           !.last_seen = Some(now),
                           !.is_active = TRUE]]
         ELSE Append(devices, Device(payload.machine_id, payload.client_id, now))
    /\ last' = [op |-> "register_device", request |-> payload,
                created |-> ~TruthyOpt(device)]
    /\ UNCHANGED <<settings, now, health_data, alerts, sessions>>

\* submit_health that drops an alert when the machine already has an open
\* alert of the same category
submit_health_suppressing_repeats(req, delay) ==
    LET payload == HealthSubmission(req)
        found == find_device(payload.machine_id)
        registered == IF TruthyOpt(found) THEN devices
                      ELSE Append(devices, Device(payload.machine_id, None, now))
        device == IF TruthyOpt(found) THEN found[1] ELSE Len(registered)
        record == HealthData(payload, now)
        repeated(a) == \E i \in DOMAIN alerts :
                          /\ alerts[i].machine_id = a.machine_id
                          /\ alerts[i].category = a.category
                          /\ alerts[i].resolved = FALSE
        new == SelectSeq(evaluate_health_data(payload.machine_id, payload, now + delay),
                         LAMBDA a : ~repeated(a))
    IN
    /\ devices' = [registered EXCEPT ![device].last_seen = Some(now)]
    /\ health_data' = Append(health_data, record)
    /\ alerts' = alerts \o new
    /\ now' = now + delay
    /\ last' = [op |-> "submit_health", request |-> req, status |-> "success",
                id |-> Len(health_data) + 1, alerts_generated |-> Len(new),
                evaluated |-> new]
    /\ UNCHANGED <<settings, sessions>>

\* submit_health that sets last_seen only on the device it has just added
submit_health_without_last_seen(req, delay) ==
    LET payload == HealthSubmission(req)
        found == find_device(payload.machine_id)
        registered == IF TruthyOpt(found) THEN devices
                      ELSE Append(devices, Device(payload.machine_id, None, now))
        record == HealthData(payload, now)
        new == evaluate_health_data(payload.machine_id, payload, now + delay)
    IN
    /\ devices' = registered
    /\ health_data' = Append(health_data, record)
    /\ alerts' = alerts \o new
    /\ now' = now + delay
    /\ last' = [op |-> "submit_health", request |-> req, status |-> "success",
                id |-> Len(health_data) + 1, alerts_generated |-> Len(new),
                evaluated |-> new]
    /\ UNCHANGED <<settings, sessions>>

\* The handler reads the clock more than once; `delay` is how far the clock
\* moves between building the HealthData record and evaluating the alerts.
submit_health(req, delay) ==
    LET payload == HealthSubmission(req)
        found == find_device(payload.machine_id)
        registered == IF TruthyOpt(found) THEN devices
                      ELSE Append(devices, Device(payload.machine_id, None, now))
        device == IF TruthyOpt(found) THEN found[1] ELSE Len(registered)
        record == HealthData(payload, now)
        new == evaluate_health_data(payload.machine_id, payload, now + delay)
    IN
    /\ devices' = [registered EXCEPT ![device].last_seen = Some(now)]
    /\ health_data' = Append(health_data, record)
    /\ alerts' = alerts \o new
    /\ now' = now + delay
    /\ last' = [op |-> "submit_health", request |-> req, status |-> "success",
                id |-> Len(health_data) + 1, alerts_generated |-> Len(new),
                evaluated |-> new]
    /\ UNCHANGED <<settings, sessions>>

----------------------------------------------------------------------------
(* app/core/database.py and submit_health statement by statement *)

\* The workers that handle submissions at the same time
Workers == {"w1", "w2"}

\* What a session holds: objects added and attributes set but not yet
\* flushed (pending), and what it has flushed to the database inside its
\* open transaction (written), which no other session sees before commit.
NoRows == [devices |-> <<>>, last_seen |-> None, health_data |-> <<>>, alerts |-> <<>>]

\* A worker before its request: the locals of submit_health (device, record,
\* alerts) unset, a fresh session from get_db.
NoSession ==
    [pc |-> "start", request |-> None, device |-> None, last_seen |-> None,
     record |-> None, alerts |-> <<>>, error |-> None,
     pending |-> NoRows, written |-> NoRows]

\* Session.flush(): every pending INSERT and UPDATE is sent to the database
flush(s) ==
    [s EXCEPT !.written =
                 [devices     |-> @.devices \o s.pending.devices,
                  last_seen   |-> IF s.pending.last_seen # None
                                  THEN s.pending.last_seen ELSE @.last_seen,
                  health_data |-> @.health_data \o s.pending.health_data,
                  alerts      |-> @.alerts \o s.pending.alerts],
              !.pending = NoRows]

\* Session.close() without a commit: the transaction is rolled back
close(s, error) ==
    [s EXCEPT !.pc = "failed", !.error = Some(error),
              !.pending = NoRows, !.written = NoRows]

\* The flush of s has to wait for another open transaction: one that has
\* inserted a device with the machine_id s inserts (unique index of
\* devices.machine_id), or one that has updated the devices row s updates.
must_wait(w, s) ==
    \E o \in Workers \ {w} :
        \/ \E i \in DOMAIN s.pending.devices, j \in DOMAIN sessions[o].written.devices :
              s.pending.devices[i].machine_id
                = sessions[o].written.devices[j].machine_id
        \/ /\ s.pending.last_seen # None
           /\ s.device # None
           /\ sessions[o].written.last_seen # None
           /\ sessions[o].device = s.device

\* devices without the unique index on machine_id
unique_violation_never(s) == FALSE

\* Device.machine_id is unique: the INSERT of a machine_id that a committed
\* row already has raises IntegrityError.
unique_violation(s) ==
    \E i \in DOMAIN s.pending.devices, j \in DOMAIN devices :
        s.pending.devices[i].machine_id = devices[j].machine_id

\* Lines 70-71: the request arrives and the device is looked up.
submit_health_query(w, req) ==
    LET payload == HealthSubmission(req)
        device == find_device(payload.machine_id)
    IN
    /\ sessions[w].pc = "start"
    /\ sessions' = [sessions EXCEPT ![w] =
                      [@ EXCEPT !.pc = IF TruthyOpt(device) THEN "record" ELSE "register",
                                !.request = Some(req),
                                !.device = device]]
    /\ UNCHANGED <<settings, now, devices, health_data, alerts, last>>

\* Lines 72-78: no device was found, one is added and flushed.
submit_health_register(w) ==
    LET s == sessions[w]
        payload == HealthSubmission(s.request[1])
        added == [s EXCEPT !.pending.devices =
                              <<Device(payload.machine_id, None, now)>>]
    IN
    /\ s.pc = "register"
    /\ ~must_wait(w, added)
    /\ IF unique_violation(added)
       THEN /\ sessions' = [sessions EXCEPT ![w] = close(added, "IntegrityError")]
            /\ last' = [op |-> "submit_health", request |-> s.request[1],
                        status_code |-> 500, error |-> "IntegrityError"]
       ELSE /\ sessions' = [sessions EXCEPT ![w] = [flush(added) EXCEPT !.pc = "record"]]
            /\ UNCHANGED last
    /\ UNCHANGED <<settings, now, devices, health_data, alerts>>

\* Lines 80-106: last_seen is set on the device and the HealthData row is
\* added; nothing is sent to the database (autoflush is off).
submit_health_record(w) ==
    LET s == sessions[w]
        payload == HealthSubmission(s.request[1])
        record == HealthData(payload, now)
    IN
    /\ s.pc = "record"
    /\ sessions' = [sessions EXCEPT ![w] =
                      [s EXCEPT !.pc = "evaluate",
                                !.last_seen = Some(now),
                                !.record = Some(record),
                                !.pending.last_seen = Some(now),
                                !.pending.health_data = <<record>>]]
    /\ UNCHANGED <<settings, now, devices, health_data, alerts, last>>

\* submit_health_evaluate on a session that commits each flush on its own
submit_health_evaluate_autocommit(w) ==
    LET s == sessions[w]
        payload == HealthSubmission(s.request[1])
        new == evaluate_health_data(payload.machine_id, payload, now)
        added == [s EXCEPT !.pc = "commit", !.alerts = new]
    IN
    /\ s.pc = "evaluate"
    /\ sessions' = [sessions EXCEPT ![w] = added]
    /\ alerts' = alerts \o new
    /\ UNCHANGED <<settings, now, devices, health_data, last>>

\* Line 109: the call of evaluate_health_data, which adds the alerts it
\* made to the session and, when there are any, flushes the session.
submit_health_evaluate(w) ==
    LET s == sessions[w]
        payload == HealthSubmission(s.request[1])
        new == evaluate_health_data(payload.machine_id, payload, now)
        added == [s EXCEPT !.pc = "commit", !.alerts = new, !.pending.alerts = new]
    IN
    /\ s.pc = "evaluate"
    /\ IF new # <<>>
       THEN /\ ~must_wait(w, added)
            /\ sessions' = [sessions EXCEPT ![w] = flush(added)]
       ELSE sessions' = [sessions EXCEPT ![w] = added]
    /\ UNCHANGED <<settings, now, devices, health_data, alerts, last>>

\* Lines 111-118: commit (which flushes what is still pending), refresh and
\* the response.  The rows of the transaction reach the tables together.
submit_health_commit(w) ==
    LET s == sessions[w]
        rows == flush(s).written
        inserted == devices \o rows.devices
        device == IF s.device # None THEN s.device[1] ELSE Len(inserted)
    IN
    /\ s.pc = "commit"
    /\ ~must_wait(w, s)
    /\ devices' = [inserted EXCEPT ![device].last_seen = rows.last_seen]
    /\ health_data' = health_data \o rows.health_data
    /\ alerts' = alerts \o rows.alerts
    /\ sessions' = [sessions EXCEPT ![w] =
                      [s EXCEPT !.pc = "done", !.pending = NoRows, !.written = NoRows]]
    /\ last' = [op |-> "submit_health", request |-> s.request[1],
                status |-> "success", id |-> Len(health_data) + 1,
                alerts_generated |-> Len(s.alerts), evaluated |-> s.alerts]
    /\ UNCHANGED <<settings, now>>

\* A statement sent to the database fails (the flush of the new device, the
\* flush made by the evaluator, or the commit): the exception leaves the
\* handler and get_db closes the session.
storage_failure(w) ==
    LET s == sessions[w]
        payload == HealthSubmission(s.request[1])
    IN
    /\ \/ s.pc \in {"register", "commit"}
       \/ /\ s.pc = "evaluate"
          /\ evaluate_health_data(payload.machine_id, payload, now) # <<>>
    /\ sessions' = [sessions EXCEPT ![w] = close(s, "OperationalError")]
    /\ last' = [op |-> "submit_health", request |-> s.request[1],
                status_code |-> 500, error |-> "OperationalError"]
    /\ UNCHANGED <<settings, now, devices, health_data, alerts>>

----------------------------------------------------------------------------
(* app/api/alerts.py *)

\* resolve_alert that writes the time of resolution into the row's timestamp
resolve_alert_writing_timestamp(alert_id) ==
    LET alert == IF alert_id \in DOMAIN alerts THEN Some(alert_id) ELSE None
    IN
    /\ IF ~TruthyOpt(alert)
       THEN /\ last' = [op |-> "resolve_alert", alert_id |-> alert_id,
                        status_code |-> 404, detail |-> "Alert not found."]
            /\ UNCHANGED alerts
       ELSE /\ alerts' = [alerts EXCEPT ![alert[1]] =
                            [@ EXCEPT !.resolved = TRUE, !.timestamp = now]]
            /\ last' = [op |-> "resolve_alert", alert_id |-> alert_id,
                        status_code |-> 200, status |-> "resolved", id |-> alert_id]
    /\ UNCHANGED <<settings, now, devices, health_data, sessions>>

resolve_alert(alert_id) ==
    LET alert == IF alert_id \in DOMAIN alerts THEN Some(alert_id) ELSE None
    IN
    /\ IF ~TruthyOpt(alert)
       THEN /\ last' = [op |-> "resolve_alert", alert_id |-> alert_id,
                        status_code |-> 404, detail |-> "Alert not found."]
            /\ UNCHANGED alerts
       ELSE /\ alerts' = [alerts EXCEPT ![alert[1]] =
                            [@ EXCEPT !.resolved = TRUE, !.resolved_at = Some(now)]]
            /\ last' = [op |-> "resolve_alert", alert_id |-> alert_id,
                        status_code |-> 200, status |-> "resolved", id |-> alert_id]
    /\ UNCHANGED <<settings, now, devices, health_data, sessions>>

\* open_rows without the filter on Alert.resolved
open_rows_any_state(machine_id) ==
    {i \in DOMAIN alerts : alerts[i].machine_id = machine_id}

\* The rows the bulk UPDATE of resolve_all matches
open_rows(machine_id) ==
    {i \in DOMAIN alerts : alerts[i].machine_id = machine_id /\ alerts[i].resolved = FALSE}

\* resolve_all whose UPDATE has no filter on Alert.machine_id
resolve_all_every_machine(machine_id) ==
    LET matched == {i \in DOMAIN alerts : alerts[i].resolved = FALSE}
        resolved_at == Some(now)
        count == Cardinality(matched)
    IN
    /\ alerts' = [i \in DOMAIN alerts |->
                    IF i \in matched
                    THEN [alerts[i] EXCEPT !.resolved = TRUE, !.resolved_at = resolved_at]
                    ELSE alerts[i]]
    /\ last' = [op |-> "resolve_all", machine_id |-> machine_id,
                status |-> "resolved", count |-> count]
    /\ UNCHANGED <<settings, now, devices, health_data, sessions>>

resolve_all(machine_id) ==
    LET matched == open_rows(machine_id)
        resolved_at == Some(now)
        count == Cardinality(matched)
    IN
    /\ alerts' = [i \in DOMAIN alerts |->
                    IF i \in matched
                    THEN [alerts[i] EXCEPT !.resolved = TRUE, !.resolved_at = resolved_at]
                    ELSE alerts[i]]
    /\ last' = [op |-> "resolve_all", machine_id |-> machine_id,
                status |-> "resolved", count |-> count]
    /\ UNCHANGED <<settings, now, devices, health_data, sessions>>

\* AlertResponse: the columns of a row as the response carries them
AlertResponse(i) ==
    [id          |-> i,
     machine_id  |-> alerts[i].machine_id,
     timestamp   |-> alerts[i].timestamp,
     severity    |-> alerts[i].severity,
     category    |-> alerts[i].category,
     message     |-> alerts[i].message,
     resolved    |-> alerts[i].resolved,
     resolved_at |-> alerts[i].resolved_at]

\* q.order_by(desc(Alert.timestamp)): the matched rows, newest first; rows
\* with the same timestamp come in any order (there is no second sort key).
order_by_desc_timestamp(matched) ==
    {q \in [1..Cardinality(matched) -> matched] :
        /\ \A i, j \in DOMAIN q : i # j => q[i] # q[j]
        /\ \A i, j \in DOMAIN q :
              i < j => alerts[q[i]].timestamp >= alerts[q[j]].timestamp}

\* The rows the filters of list_alerts keep; a filter given as None or as
\* the empty string is not applied.
list_alerts_matched(machine_id, severity, unresolved_only) ==
    {i \in DOMAIN alerts :
        /\ (TruthyOpt(machine_id) /\ TruthyStr(machine_id[1]))
              => alerts[i].machine_id = machine_id[1]
        /\ (TruthyOpt(severity) /\ TruthyStr(severity[1]))
              => alerts[i].severity = severity[1]
        /\ unresolved_only => alerts[i].resolved = FALSE}

list_alerts(machine_id, severity, unresolved_only, limit) ==
    LET matched == list_alerts_matched(machine_id, severity, unresolved_only) IN
    /\ \E q \in order_by_desc_timestamp(matched) :
          last' = [op |-> "list_alerts", machine_id |-> machine_id,
                   severity |-> severity, unresolved_only |-> unresolved_only,
                   limit |-> limit,
                   rows |-> [k \in 1..Min({limit, Len(q)}) |-> AlertResponse(q[k])]]
    /\ UNCHANGED <<settings, now, devices, health_data, alerts, sessions>>

----------------------------------------------------------------------------
(* app/api/dashboard.py *)

STALE_MINUTES == 15

\* What .order_by(desc(HealthData.timestamp)).first() may return for a device:
\* None without rows, else a row with the greatest timestamp (any of them
\* when several rows tie: the query gives no second sort key).
latest_candidates(machine_id) ==
    LET mine == {i \in DOMAIN health_data : health_data[i].machine_id = machine_id}
        newest == {i \in mine :
                     \A k \in mine : health_data[k].timestamp <= health_data[i].timestamp}
    IN IF mine = {} THEN {None} ELSE {Some(health_data[i]) : i \in newest}

count_open_alerts(machine_id) ==
    Cardinality({i \in DOMAIN alerts :
                   alerts[i].machine_id = machine_id /\ alerts[i].resolved = FALSE})

count_open_severity(severity) ==
    Cardinality({i \in DOMAIN alerts :
                   alerts[i].resolved = FALSE /\ alerts[i].severity = severity})

\* derive_status with a strict comparison against the stale threshold
derive_status_strict(d, latest, stale_threshold) ==
    IF TruthyOpt(d.last_seen) /\ d.last_seen[1] > stale_threshold
    THEN IF TruthyOpt(latest)
         THEN IF TruthyNum(latest[1].cpu_percent)
                 /\ latest[1].cpu_percent >= settings.CPU_CRITICAL
              THEN "critical"
              ELSE IF TruthyNum(latest[1].disk_percent)
                      /\ latest[1].disk_percent >= settings.DISK_CRITICAL
              THEN "critical"
              ELSE IF TruthyNum(latest[1].threat_score)
                      /\ latest[1].threat_score >= settings.THREAT_CRITICAL
              THEN "critical"
              ELSE IF \/ TruthyNum(latest[1].cpu_percent)
                         /\ latest[1].cpu_percent >= settings.CPU_WARNING
                      \/ TruthyNum(latest[1].disk_percent)
                         /\ latest[1].disk_percent >= settings.DISK_WARNING
              THEN "warning"
              ELSE "healthy"
         ELSE "healthy"
    ELSE "offline"

\* derive_status with the battery rule of the alert engine among the
\* critical checks
derive_status_with_battery(d, latest, stale_threshold) ==
    IF TruthyOpt(d.last_seen) /\ d.last_seen[1] >= stale_threshold
    THEN IF TruthyOpt(latest)
         THEN IF TruthyNum(latest[1].cpu_percent)
                 /\ latest[1].cpu_percent >= settings.CPU_CRITICAL
              THEN "critical"
              ELSE IF TruthyNum(latest[1].disk_percent)
                      /\ latest[1].disk_percent >= settings.DISK_CRITICAL
              THEN "critical"
              ELSE IF TruthyNum(latest[1].threat_score)
                      /\ latest[1].threat_score >= settings.THREAT_CRITICAL
              THEN "critical"
              ELSE IF latest[1].battery_percent # None
                      /\ latest[1].battery_percent[1] <= settings.BATTERY_CRITICAL
              THEN "critical"
              ELSE IF \/ TruthyNum(latest[1].cpu_percent)
                         /\ latest[1].cpu_percent >= settings.CPU_WARNING
                      \/ TruthyNum(latest[1].disk_percent)
                         /\ latest[1].disk_percent >= settings.DISK_WARNING
              THEN "warning"
              ELSE "healthy"
         ELSE "healthy"
    ELSE "offline"

\* The status of device row d, given the row `latest` the query returned
\* derive_status that reports a device with an open critical alert as critical
derive_status_escalating_alerts(d, latest, stale_threshold) ==
    IF TruthyOpt(d.last_seen) /\ d.last_seen[1] >= stale_threshold
          /\ \E k \in DOMAIN alerts : /\ alerts[k].machine_id = d.machine_id
                                      /\ alerts[k].resolved = FALSE
                                      /\ alerts[k].severity = "critical"
    THEN "critical"
    ELSE
        IF TruthyOpt(d.last_seen) /\ d.last_seen[1] >= stale_threshold
        THEN IF TruthyOpt(latest)
             THEN IF TruthyNum(latest[1].cpu_percent)
                     /\ latest[1].cpu_percent >= settings.CPU_CRITICAL
                  THEN "critical"
                  ELSE IF TruthyNum(latest[1].disk_percent)
                          /\ latest[1].disk_percent >= settings.DISK_CRITICAL
                  THEN "critical"
                  ELSE IF TruthyNum(latest[1].threat_score)
                          /\ latest[1].threat_score >= settings.THREAT_CRITICAL
                  THEN "critical"
                  ELSE IF \/ TruthyNum(latest[1].cpu_percent)
                             /\ latest[1].cpu_percent >= settings.CPU_WARNING
                          \/ TruthyNum(latest[1].disk_percent)
                             /\ latest[1].disk_percent >= settings.DISK_WARNING
                  THEN "warning"
                  ELSE "healthy"
             ELSE "healthy"
        ELSE "offline"

derive_status(d, latest, stale_threshold) ==
    IF TruthyOpt(d.last_seen) /\ d.last_seen[1] >= stale_threshold
    THEN IF TruthyOpt(latest)
         THEN IF TruthyNum(latest[1].cpu_percent)
                 /\ latest[1].cpu_percent >= settings.CPU_CRITICAL
              THEN "critical"
              ELSE IF TruthyNum(latest[1].disk_percent)
                      /\ latest[1].disk_percent >= settings.DISK_CRITICAL
              THEN "critical"
              ELSE IF TruthyNum(latest[1].threat_score)
                      /\ latest[1].threat_score >= settings.THREAT_CRITICAL
              THEN "critical"
              ELSE IF \/ TruthyNum(latest[1].cpu_percent)
                         /\ latest[1].cpu_percent >= settings.CPU_WARNING
                      \/ TruthyNum(latest[1].disk_percent)
                         /\ latest[1].disk_percent >= settings.DISK_WARNING
              THEN "warning"
              ELSE "healthy"
         ELSE "healthy"
    ELSE "offline"

\* The devices the overview lists: the active ones, of one client when a
\* client_id is given
listed_devices(client_id) ==
    SelectSeq(devices,
              LAMBDA d : /\ d.is_active = TRUE
                         /\ (TruthyOpt(client_id) /\ TruthyStr(client_id[1]))
                                => d.client_id = client_id)

dashboard_overview(client_id) ==
    LET listed == listed_devices(client_id)
        stale_threshold == now - STALE_MINUTES
    IN
    /\ \E pick \in [DOMAIN listed -> Opt({health_data[i] : i \in DOMAIN health_data})] :
         /\ \A i \in DOMAIN listed : pick[i] \in latest_candidates(listed[i].machine_id)
         /\ LET summaries ==
                  [i \in DOMAIN listed |->
                     [machine_id  |-> listed[i].machine_id,
                      status      |-> derive_status(listed[i], pick[i], stale_threshold),
                      latest      |-> pick[i],
                      last_seen   |-> listed[i].last_seen,
                      open_alerts |-> count_open_alerts(listed[i].machine_id)]]
            IN last' = [op |-> "dashboard_overview", client_id |-> client_id,
                        at |-> now,
                        total_devices   |-> Len(listed),
                        active_devices  |->
                            Cardinality({i \in DOMAIN summaries :
                                           summaries[i].status # "offline"}),
                        critical_alerts |-> count_open_severity("critical"),
                        warning_alerts  |-> count_open_severity("warning"),
                        devices         |-> summaries]
    /\ UNCHANGED <<settings, now, devices, health_data, alerts, sessions>>

----------------------------------------------------------------------------
(* the clock *)

\* Time passes between two requests, up to `limit`.
advance(limit) ==
    /\ \E d \in TickSteps : now + d <= limit /\ now' = now + d
    /\ UNCHANGED <<settings, devices, health_data, alerts, last, sessions>>

----------------------------------------------------------------------------
(* The service: settings loaded once, then requests in any order *)

\* The environment the process starts in: no threshold set, all defaults
Envs == {[n \in {} |-> 0]}

\* Submissions: an idle machine, a busy CPU, and memory pressure on battery
Requests ==
    UNION {
      {[machine_id |-> id, cpu_percent |-> 0, memory_percent |-> 50,
        disk_percent |-> 50, threat_score |-> 0],
       [machine_id |-> id, cpu_percent |-> 96, memory_percent |-> 50,
        disk_percent |-> 50],
       [machine_id |-> id, cpu_percent |-> 50, memory_percent |-> 96,
        disk_percent |-> 50, battery_percent |-> 5, threat_score |-> 0]} :
        id \in MachineIds}

Registrations == [machine_id : MachineIds, client_id : {None}]

Init ==
    /\ \E env \in Envs : settings = Settings(env)
    /\ now = 0
    /\ devices = <<>>
    /\ health_data = <<>>
    /\ alerts = <<>>
    /\ last = [op |-> "start"]
    /\ sessions = [w \in Workers |-> NoSession]

RegisterDevice == \E payload \in Registrations : register_device(payload)

\* The tables and the clock are kept within the bounds of the model.
SubmitHealth ==
    \E req \in Requests, delay \in HandlerDelays :
        /\ Len(health_data) < MaxHealth
        /\ now + delay <= MaxTime
        /\ submit_health(req, delay)
        /\ Len(alerts') <= MaxAlerts

ResolveAlert == \E alert_id \in 1..(MaxAlerts + 1) : resolve_alert(alert_id)

ResolveAll == \E machine_id \in MachineIds : resolve_all(machine_id)

DashboardOverview == \E client_id \in {None} : dashboard_overview(client_id)

Tick == advance(MaxTime)

Next ==
    \/ RegisterDevice
    \/ SubmitHealth
    \/ ResolveAlert
    \/ ResolveAll
    \/ DashboardOverview
    \/ Tick

Spec == Init /\ [][Next]_vars

----------------------------------------------------------------------------
(* The alert table under every operation, list_alerts included: one machine
   with all its submissions, and a second one beside it *)

\* Submissions of one machine: one alert (cpu), or two (memory and battery)
AlertsRequests ==
    {[machine_id |-> "m1", cpu_percent |-> 96, memory_percent |-> 50,
      disk_percent |-> 50],
     [machine_id |-> "m1", cpu_percent |-> 50, memory_percent |-> 96,
      disk_percent |-> 50, battery_percent |-> 5, threat_score |-> 0]}

\* A second machine, never registered by hand, with a busy cpu
NeighbourRequests ==
    {[machine_id |-> "", cpu_percent |-> 96, memory_percent |-> 50,
      disk_percent |-> 50]}

\* Queries: the default page of all alerts, the open alerts of one machine,
\* and its newest open critical alert
AlertsQueries ==
    {<<None, None, FALSE, 50>>,
     <<Some("m1"), None, TRUE, 50>>,
     <<Some("m1"), Some("critical"), TRUE, 1>>}

AlertsRegister ==
    register_device([machine_id |-> "m1", client_id |-> None])

AlertsSubmit ==
    \E req \in AlertsRequests \cup NeighbourRequests, delay \in HandlerDelays :
        /\ Len(health_data) < MaxHealth
        /\ now + delay <= MaxTime
        /\ submit_health(req, delay)
        /\ Len(alerts') <= MaxAlerts

ListAlerts ==
    \E query \in AlertsQueries :
        list_alerts(query[1], query[2], query[3], query[4])

NextAlerts ==
    \/ AlertsRegister
    \/ AlertsSubmit
    \/ ResolveAlert
    \/ ResolveAll
    \/ DashboardOverview
    \/ ListAlerts
    \/ Tick

SpecAlerts == Init /\ [][NextAlerts]_vars

----------------------------------------------------------------------------
(* Two submissions of one machine handled at the same time, either of which
   may fail at the database *)

\* Submissions of one machine: no alert, one alert (cpu), two alerts
TxnRequests ==
    {[machine_id |-> "m1", cpu_percent |-> 0, memory_percent |-> 50,
      disk_percent |-> 50, threat_score |-> 0],
     [machine_id |-> "m1", cpu_percent |-> 96, memory_percent |-> 50,
      disk_percent |-> 50],
     [machine_id |-> "m1", cpu_percent |-> 50, memory_percent |-> 96,
      disk_percent |-> 50, battery_percent |-> 5, threat_score |-> 0]}

\* The machine is unknown, or was registered when the service started
InitTxn ==
    /\ \E env \in Envs : settings = Settings(env)
    /\ now = 0
    /\ devices \in {<<>>, <<Device("m1", None, 0)>>}
    /\ health_data = <<>>
    /\ alerts = <<>>
    /\ last = [op |-> "start"]
    /\ sessions = [w \in Workers |-> NoSession]

TxnQuery == \E w \in Workers, req \in TxnRequests : submit_health_query(w, req)

TxnRegister == \E w \in Workers : submit_health_register(w)

TxnRecord == \E w \in Workers : submit_health_record(w)

TxnEvaluate == \E w \in Workers : submit_health_evaluate(w)

TxnCommit == \E w \in Workers : submit_health_commit(w)

TxnFailure == \E w \in Workers : storage_failure(w)

NextTxn ==
    \/ TxnQuery
    \/ TxnRegister
    \/ TxnRecord
    \/ TxnEvaluate
    \/ TxnCommit
    \/ TxnFailure
    \/ Tick

SpecTxn == InitTxn /\ [][NextTxn]_vars

\* register_device while submissions are in progress.  The handler is one
\* step, taken when its INSERT or UPDATE does not have to wait: no open
\* transaction has inserted the machine_id or updated the row.
TxnRegisterDevice ==
    \E payload \in {[machine_id |-> "m1", client_id |-> None]} :
        /\ \A w \in Workers :
              /\ \A j \in DOMAIN sessions[w].written.devices :
                    sessions[w].written.devices[j].machine_id # payload.machine_id
              /\ ~(/\ sessions[w].written.last_seen # None
                   /\ sessions[w].device # None
                   /\ sessions[w].device = find_device(payload.machine_id))
        /\ register_device(payload)

NextRegistry ==
    \/ NextTxn
    \/ TxnRegisterDevice

SpecRegistry == InitTxn /\ [][NextRegistry]_vars

----------------------------------------------------------------------------
(* Evaluation of a single submission, over a wide range of thresholds *)

EvalPairs == {<<90, 75>>, <<90, 80>>, <<0, 0>>, <<75, 90>>}

EvalEnvs ==
    {[CPU_CRITICAL |-> c[1], CPU_WARNING |-> c[2],
      MEMORY_CRITICAL |-> m[1], MEMORY_WARNING |-> m[2],
      DISK_CRITICAL |-> d[1], DISK_WARNING |-> d[2],
      BATTERY_CRITICAL |-> b, THREAT_CRITICAL |-> s] :
        c \in EvalPairs \ {<<90, 80>>}, m \in EvalPairs \ {<<90, 75>>},
        d \in EvalPairs \ {<<90, 75>>}, b \in {20, 0}, s \in {7, 0}}

EvalPercents == {-1, 0, 50, 80, 90, 96}

EvalRequests ==
    UNION {
      {[machine_id |-> "m1", cpu_percent |-> c, memory_percent |-> m,
        disk_percent |-> d, battery_percent |-> b, threat_score |-> s],
       [machine_id |-> "m1", cpu_percent |-> c, memory_percent |-> m,
        disk_percent |-> d, threat_score |-> s],
       [machine_id |-> "m1", cpu_percent |-> c, memory_percent |-> m,
        disk_percent |-> d, battery_percent |-> b]} :
        c \in EvalPercents, m \in EvalPercents, d \in EvalPercents,
        b \in {0, 20, 21}, s \in {0, 7, 8}}

InitEval ==
    /\ \E env \in EvalEnvs : settings = Settings(env)
    /\ now = 0
    /\ devices = <<>>
    /\ health_data = <<>>
    /\ alerts = <<>>
    /\ last = [op |-> "start"]
    /\ sessions = [w \in Workers |-> NoSession]

EvalSubmit ==
    /\ health_data = <<>>
    /\ \E req \in EvalRequests : submit_health(req, 0)

NextEval == EvalSubmit

SpecEval == InitEval /\ [][NextEval]_vars

----------------------------------------------------------------------------
(* The dashboard roll-up of one device, over a range of thresholds, of       *)
(* snapshots and of ages of the last contact                                 *)

StatusEnvs ==
    {[CPU_CRITICAL |-> c[1], CPU_WARNING |-> c[2],
      DISK_CRITICAL |-> d[1], DISK_WARNING |-> d[2], THREAT_CRITICAL |-> s] :
        c \in {<<90, 75>>, <<0, 0>>, <<90, -5>>},
        d \in {<<90, 80>>, <<0, 0>>}, s \in {7, 0}}

StatusRequests ==
    UNION {
      {[machine_id |-> "m1", cpu_percent |-> c, memory_percent |-> m,
        disk_percent |-> d, battery_percent |-> 5, threat_score |-> s],
       [machine_id |-> "m1", cpu_percent |-> c, memory_percent |-> m,
        disk_percent |-> d, threat_score |-> s]} :
        c \in {0, 80, 96}, m \in {50, 96}, d \in {0, 85, 96}, s \in {0, 8}}

InitStatus ==
    /\ \E env \in StatusEnvs : settings = Settings(env)
    /\ now = 0
    /\ devices = <<>>
    /\ health_data = <<>>
    /\ alerts = <<>>
    /\ last = [op |-> "start"]
    /\ sessions = [w \in Workers |-> NoSession]

StatusRegister ==
    \E client_id \in Opt(ClientIds) :
        register_device([machine_id |-> "m1", client_id |-> client_id])

StatusSubmit ==
    /\ health_data = <<>>
    /\ \E req \in StatusRequests : submit_health(req, 0)

StatusDashboard == \E client_id \in Opt(ClientIds) : dashboard_overview(client_id)

StatusTick == advance(MaxStatusTime)

NextStatus ==
    \/ StatusRegister
    \/ StatusSubmit
    \/ StatusDashboard
    \/ StatusTick

SpecStatus == InitStatus /\ [][NextStatus]_vars

----------------------------------------------------------------------------
(* One machine that registers, submits and is watched on the dashboard for
   half an hour *)

ContactSubmit ==
    \E req \in AlertsRequests, delay \in HandlerDelays :
        /\ Len(health_data) < MaxHealth
        /\ now + delay <= MaxStatusTime
        /\ submit_health(req, delay)
        /\ Len(alerts') <= MaxAlerts

NextContact ==
    \/ AlertsRegister
    \/ ContactSubmit
    \/ DashboardOverview
    \/ StatusTick

SpecContact == Init /\ [][NextContact]_vars

----------------------------------------------------------------------------
(* Properties of one evaluation (SpecEval) *)

\* The state right after a submission was handled: `last` holds the request
\* and the list the evaluator returned, health_data[last.id] the snapshot.
Submitted == last.op = "submit_health"

Snapshot == health_data[last.id]

\* The alerts of one category among those the evaluator returned
Emitted(category) == SelectSeq(last.evaluated, LAMBDA a : a.category = category)

EmittedSeverities(category) ==
    {Emitted(category)[i].severity : i \in DOMAIN Emitted(category)}

\* The rule of a paired metric: at most one alert; critical exactly from the
\* critical threshold up; warning exactly from the warning threshold up when
\* the critical check did not fire.
PairedRule(category, value, critical, warning) ==
    /\ Len(Emitted(category)) <= 1
    /\ EmittedSeverities(category) \subseteq {"critical", "warning"}
    /\ "critical" \in EmittedSeverities(category) <=> value >= critical
    /\ "warning" \in EmittedSeverities(category)
          <=> (value >= warning /\ ~(value >= critical))

\* C1: for cpu, memory and disk independently, one evaluation emits at most
\* one alert of the category: critical exactly when value >= the critical
\* threshold, warning exactly when value >= the warning threshold and the
\* critical check did not fire, none otherwise.
C1_PairedMetricsOneAlert ==
    Submitted =>
        /\ PairedRule("cpu", Snapshot.cpu_percent,
                      settings.CPU_CRITICAL, settings.CPU_WARNING)
        /\ PairedRule("memory", Snapshot.memory_percent,
                      settings.MEMORY_CRITICAL, settings.MEMORY_WARNING)
        /\ PairedRule("disk", Snapshot.disk_percent,
                      settings.DISK_CRITICAL, settings.DISK_WARNING)

\* The example of the specification: cpu 96 against 90/75 with nothing else
\* breached gives exactly one candidate, critical cpu.
C1_Witness ==
    /\ Submitted
    /\ settings = Settings([n \in {} |-> 0])
    /\ Snapshot.cpu_percent = 96 /\ Snapshot.memory_percent = 50
    /\ Snapshot.disk_percent = 50 /\ Snapshot.threat_score = 0
    /\ Snapshot.battery_percent = None
    /\ Len(last.evaluated) = 1
    /\ last.evaluated[1].severity = "critical" /\ last.evaluated[1].category = "cpu"

CategoryRank(category) ==
    CASE category = "cpu" -> 1
      [] category = "memory" -> 2
      [] category = "disk" -> 3
      [] category = "battery" -> 4
      [] category = "security" -> 5
      [] OTHER -> 0

\* C2: the alerts of one evaluation are in the order cpu, memory, disk,
\* battery, security, in the returned list and in the alerts table; no
\* category appears twice and there are at most five.
C2_FixedCategoryOrder ==
    Submitted =>
        LET got == last.evaluated
            k == Len(got)
        IN /\ k <= 5
           /\ \A i \in DOMAIN got : CategoryRank(got[i].category) >= 1
           /\ \A i, j \in DOMAIN got :
                 i < j => CategoryRank(got[i].category) < CategoryRank(got[j].category)
           /\ k = last.alerts_generated
           /\ Len(alerts) >= k
           /\ SubSeq(alerts, Len(alerts) - k + 1, Len(alerts)) = got

\* All five rows breached in one evaluation.
C2_Witness ==
    /\ Submitted
    /\ Len(last.evaluated) = 5
    /\ [i \in 1..5 |-> alerts[i].category]
          = <<"cpu", "memory", "disk", "battery", "security">>

\* C3: a battery alert is emitted iff battery_percent is present and
\* <= BATTERY_CRITICAL, and it is critical; a request without battery_percent
\* gets no battery alert (absence is not zero).
C3_BatteryRule ==
    Submitted =>
        /\ Len(Emitted("battery")) <= 1
        /\ EmittedSeverities("battery") \subseteq {"critical"}
        /\ Emitted("battery") # <<>>
              <=> /\ "battery_percent" \in DOMAIN last.request
                  /\ last.request.battery_percent <= settings.BATTERY_CRITICAL
        /\ "battery_percent" \notin DOMAIN last.request => Emitted("battery") = <<>>

\* No battery_percent, a threshold that 0 would meet, other rows breached:
\* no battery alert.
C3_Witness ==
    /\ Submitted
    /\ "battery_percent" \notin DOMAIN last.request
    /\ 0 <= settings.BATTERY_CRITICAL
    /\ Emitted("cpu") # <<>>
    /\ Emitted("security") # <<>>
    /\ Emitted("battery") = <<>>

\* C4: a security alert is emitted iff threat_score >= THREAT_CRITICAL
\* (inclusive), it is critical, and a request without threat_score is
\* evaluated with 0.
C4_ThreatRule ==
    Submitted =>
        LET threat == IF "threat_score" \in DOMAIN last.request
                      THEN last.request.threat_score ELSE 0
        IN /\ Len(Emitted("security")) <= 1
           /\ EmittedSeverities("security") \subseteq {"critical"}
           /\ Emitted("security") # <<>> <=> threat >= settings.THREAT_CRITICAL

\* A threat score exactly at a positive threshold fires.
C4_Witness ==
    /\ Submitted
    /\ "threat_score" \in DOMAIN last.request
    /\ settings.THREAT_CRITICAL > 0
    /\ last.request.threat_score = settings.THREAT_CRITICAL
    /\ Emitted("security") # <<>>
    /\ Emitted("security")[1].severity = "critical"

----------------------------------------------------------------------------
(* Properties of the dashboard roll-up (SpecStatus) *)

\* The state after an overview was served: `last` holds the time it read
\* the clock and, per listed device, the status, the snapshot the query
\* returned and the last contact.
Overview == last.op = "dashboard_overview"

Summaries == {last.devices[i] : i \in DOMAIN last.devices}

NonStale(s) == s.last_seen # None /\ last.at - s.last_seen[1] <= STALE_MINUTES

CriticalCondition(snapshot) ==
    \/ snapshot.cpu_percent >= settings.CPU_CRITICAL
    \/ snapshot.disk_percent >= settings.DISK_CRITICAL
    \/ snapshot.threat_score >= settings.THREAT_CRITICAL

WarningCondition(snapshot) ==
    \/ snapshot.cpu_percent >= settings.CPU_WARNING
    \/ snapshot.disk_percent >= settings.DISK_WARNING

\* C5: a listed device is offline iff its last contact is absent or more
\* than 15 minutes before the overview, whatever its latest snapshot says;
\* a last contact exactly 15 minutes old is not offline.
C5_OfflineIffStale ==
    Overview =>
        \A s \in Summaries :
            s.status = "offline"
                <=> (s.last_seen = None \/ last.at - s.last_seen[1] > STALE_MINUTES)

\* A device offline although its latest snapshot is healthy in every metric.
C5_Witness ==
    /\ Overview
    /\ \E s \in Summaries :
          /\ s.status = "offline"
          /\ s.last_seen # None
          /\ last.at - s.last_seen[1] > STALE_MINUTES
          /\ s.latest # None
          /\ ~CriticalCondition(s.latest[1])
          /\ ~WarningCondition(s.latest[1])
          /\ s.latest[1].memory_percent < settings.MEMORY_WARNING
          /\ s.latest[1].battery_percent = None

\* C6: for a non-stale device with a latest snapshot, the status is critical
\* iff cpu >= CPU_CRITICAL or disk >= DISK_CRITICAL or
\* threat_score >= THREAT_CRITICAL, for every value and threshold.
C6_CriticalIffThresholdMet ==
    Overview =>
        \A s \in Summaries :
            (NonStale(s) /\ s.latest # None)
                => (s.status = "critical" <=> CriticalCondition(s.latest[1]))

\* C7: for a non-stale device with a latest snapshot, the status is warning
\* iff no critical condition holds and cpu >= CPU_WARNING or
\* disk >= DISK_WARNING; it is healthy when neither holds.
C7_WarningIffThresholdMet ==
    Overview =>
        \A s \in Summaries :
            (NonStale(s) /\ s.latest # None)
                => /\ s.status = "warning"
                        <=> (~CriticalCondition(s.latest[1])
                             /\ WarningCondition(s.latest[1]))
                   /\ (~CriticalCondition(s.latest[1]) /\ ~WarningCondition(s.latest[1]))
                        => s.status = "healthy"

\* Other battery and memory readings the same snapshot could have carried
OtherBattery == Opt({0, 5, 20, 21, 100})
OtherMemory == {0, 50, 96, 100}

\* C8: the status does not depend on battery_percent nor on memory_percent:
\* with the same last contact, the same time and a latest snapshot equal in
\* cpu, disk and threat score, the status is the same.
C8_StatusIgnoresBatteryAndMemory ==
    Overview =>
        \A s \in Summaries :
            s.latest # None =>
                \A b \in OtherBattery, m \in OtherMemory :
                    derive_status([last_seen |-> s.last_seen],
                                  Some([s.latest[1] EXCEPT !.battery_percent = b,
                                                           !.memory_percent = m]),
                                  last.at - STALE_MINUTES)
                      = s.status

\* A device on a battery at or below BATTERY_CRITICAL, memory above its
\* critical threshold, reported healthy.
C8_Witness ==
    /\ Overview
    /\ \E s \in Summaries :
          /\ s.latest # None
          /\ s.latest[1].battery_percent # None
          /\ s.latest[1].battery_percent[1] <= settings.BATTERY_CRITICAL
          /\ s.latest[1].memory_percent >= settings.MEMORY_CRITICAL
          /\ s.status = "healthy"

\* The devices row of a machine
DeviceOf(machine_id) == devices[find_device(machine_id)[1]]

\* C9: a device that is not stale and has no snapshot is healthy; a device
\* created by register_device, with no submission yet, is healthy in every
\* overview made within 15 minutes of its registration.
C9_RegisteredDeviceHealthy ==
    Overview =>
        \A s \in Summaries :
            s.latest = None =>
                /\ NonStale(s) => s.status = "healthy"
                /\ last.at - DeviceOf(s.machine_id).registered_at[1] <= STALE_MINUTES
                      => s.status = "healthy"

\* A registered device without any snapshot, listed as healthy 15 minutes
\* after its registration.
C9_Witness ==
    /\ Overview
    /\ health_data = <<>>
    /\ \E s \in Summaries :
          /\ s.latest = None
          /\ last.at - DeviceOf(s.machine_id).registered_at[1] = STALE_MINUTES
          /\ s.status = "healthy"

----------------------------------------------------------------------------
(* Properties of the alert handlers (Spec) *)

\* A step made by resolve_all: the handler does not read the clock twice,
\* and every other handler leaves another `last`.
ResolveAllStep == last'.op = "resolve_all" /\ now' = now

OpenBefore(machine_id) ==
    {i \in DOMAIN alerts : alerts[i].machine_id = machine_id /\ ~alerts[i].resolved}

\* C10: resolve_all for device m sets resolved and one same resolved_at on
\* every alert of m that was open, returns their number (0 when there were
\* none), and leaves m without an open alert.
C10_ResolveAllResolvesOpenAlerts ==
    [][ResolveAllStep =>
         LET m == last'.machine_id
             open == OpenBefore(m)
         IN /\ DOMAIN alerts' = DOMAIN alerts
            /\ \A i \in open : alerts'[i].resolved /\ alerts'[i].resolved_at # None
            /\ \A i, j \in open : alerts'[i].resolved_at = alerts'[j].resolved_at
            /\ last'.count = Cardinality(open)
            /\ \A i \in DOMAIN alerts' :
                  alerts'[i].machine_id = m => alerts'[i].resolved]_vars

\* After a bulk resolve that returned 2: two alerts of the device share its
\* resolved_at, a third one was resolved earlier on its own.
C10_Witness ==
    /\ last.op = "resolve_all"
    /\ last.count = 2
    /\ \E i, j, k \in DOMAIN alerts :
          /\ i # j
          /\ alerts[i].machine_id = last.machine_id
          /\ alerts[j].machine_id = last.machine_id
          /\ alerts[k].machine_id = last.machine_id
          /\ alerts[i].resolved_at = Some(now)
          /\ alerts[j].resolved_at = Some(now)
          /\ alerts[k].resolved_at # None
          /\ alerts[k].resolved_at # Some(now)

\* C11: resolved_at is set once, when resolved goes from false to true: in
\* no step (single resolve, bulk resolve, or any other operation) does the
\* resolved_at of an alert that was already resolved change.
C11_ResolvedAtSetOnce ==
    [][\A i \in DOMAIN alerts :
          alerts[i].resolved =>
              /\ i \in DOMAIN alerts'
              /\ alerts'[i].resolved_at = alerts[i].resolved_at]_vars

\* C12: no operation (submit_health, register_device, resolve_alert,
\* resolve_all, dashboard_overview, list_alerts) deletes an alert row or
\* changes its id, machine_id, severity, category, message or timestamp.
C12_AlertRowsKept ==
    [][\A i \in DOMAIN alerts :
          /\ i \in DOMAIN alerts'
          /\ alerts'[i].machine_id = alerts[i].machine_id
          /\ alerts'[i].severity = alerts[i].severity
          /\ alerts'[i].category = alerts[i].category
          /\ alerts'[i].message = alerts[i].message
          /\ alerts'[i].timestamp = alerts[i].timestamp]_vars

\* Three alerts made at time 0, resolved at different times, are all listed
\* at time 15 and carry their timestamp.
C12_Witness ==
    /\ last.op = "list_alerts"
    /\ Len(last.rows) = 3
    /\ now = 15
    /\ \A i \in DOMAIN alerts : alerts[i].timestamp = 0 /\ alerts[i].resolved
    /\ \E i, j \in DOMAIN alerts : alerts[i].resolved_at # alerts[j].resolved_at

\* A step made by submit_health: it alone adds a row to health_data.
SubmitStep ==
    last'.op = "submit_health" /\ Len(health_data') = Len(health_data) + 1

\* The number of metric rows a snapshot breaches under the loaded thresholds
Breaches(snapshot) ==
    (IF snapshot.cpu_percent >= settings.CPU_WARNING
        \/ snapshot.cpu_percent >= settings.CPU_CRITICAL THEN 1 ELSE 0)
    + (IF snapshot.memory_percent >= settings.MEMORY_WARNING
          \/ snapshot.memory_percent >= settings.MEMORY_CRITICAL THEN 1 ELSE 0)
    + (IF snapshot.disk_percent >= settings.DISK_WARNING
          \/ snapshot.disk_percent >= settings.DISK_CRITICAL THEN 1 ELSE 0)
    + (IF snapshot.battery_percent # None
          /\ snapshot.battery_percent[1] <= settings.BATTERY_CRITICAL THEN 1 ELSE 0)
    + (IF snapshot.threat_score >= settings.THREAT_CRITICAL THEN 1 ELSE 0)

\* C13: alerts are not deduplicated across submissions: a submission whose
\* snapshot breaches k metric rows appends exactly k open alert rows of its
\* machine, whatever alerts exist already, keeps the existing rows, and
\* reports alerts_generated = k.
C13_NoDeduplication ==
    [][SubmitStep =>
         LET snapshot == health_data'[last'.id]
             k == Breaches(snapshot)
         IN /\ Len(alerts') = Len(alerts) + k
            /\ SubSeq(alerts', 1, Len(alerts)) = alerts
            /\ \A i \in (Len(alerts) + 1)..Len(alerts') :
                  /\ alerts'[i].machine_id = snapshot.machine_id
                  /\ alerts'[i].resolved = FALSE
            /\ last'.alerts_generated = k]_vars

\* The same snapshot with a critical cpu submitted twice, the second time
\* while the alert of the first was still open: two cpu alerts (n = 2, k = 1).
C13_Witness ==
    /\ last.op = "submit_health"
    /\ last.id = 2
    /\ last.alerts_generated = 1
    /\ health_data[1] = [health_data[2] EXCEPT !.timestamp = health_data[1].timestamp]
    /\ Len(alerts) = 2
    /\ alerts[1].category = "cpu" /\ alerts[2].category = "cpu"
    /\ alerts[1].machine_id = alerts[2].machine_id
    /\ alerts[1].resolved = FALSE

\* C15: the alerts made by a submission all carry one timestamp, and it is
\* the timestamp of the health_data row of that submission, also when the
\* clock moves while the submission is handled.
C15_AlertTimestampIsCapturedAt ==
    Submitted =>
        /\ \A i, j \in DOMAIN last.evaluated :
              last.evaluated[i].timestamp = last.evaluated[j].timestamp
        /\ \A i \in DOMAIN last.evaluated :
              last.evaluated[i].timestamp = Snapshot.timestamp

\* C18: a submission with an empty machine_id is rejected before anything
\* is evaluated or stored: no submission with an empty machine_id is
\* answered with success, and no device row touched by a submission, no
\* health_data row and no alert row has an empty machine_id.
C18_EmptyMachineIdRejected ==
    /\ Submitted =>
          /\ last.request.machine_id # ""
          /\ DeviceOf(last.request.machine_id).machine_id # ""
    /\ \A i \in DOMAIN health_data : health_data[i].machine_id # ""
    /\ \A i \in DOMAIN alerts : alerts[i].machine_id # ""

PairedThresholdsOrdered ==
    /\ settings.CPU_WARNING <= settings.CPU_CRITICAL
    /\ settings.MEMORY_WARNING <= settings.MEMORY_CRITICAL
    /\ settings.DISK_WARNING <= settings.DISK_CRITICAL

\* C19: a configuration with a warning threshold above the critical
\* threshold of the same metric stops the service at startup, so every
\* submission that was evaluated was evaluated with warning <= critical for
\* cpu, memory and disk.
C19_ThresholdOrderEnforced ==
    Submitted => PairedThresholdsOrdered

----------------------------------------------------------------------------
(* Properties of submissions handled at the same time (SpecTxn) *)

\* How often a row occurs in a table
Count(rows, row) == Cardinality({i \in DOMAIN rows : rows[i] = row})

\* What the database holds: the committed rows of the three tables and the
\* rows each open transaction has written
Database == <<devices, health_data, alerts, [w \in Workers |-> sessions[w].written]>>

\* A step in which worker w calls evaluate_health_data and gets its result
EvaluateStep(w) == sessions[w].pc = "evaluate" /\ sessions'[w].pc = "commit"

\* The evaluator has returned to worker w
Evaluated(w) == sessions[w].pc \in {"commit", "done"}

Candidates(list) ==
    [i \in DOMAIN list |-> <<list[i].severity, list[i].category, list[i].message>>]

\* C14: the evaluator is a pure function without side effects: a call of it
\* leaves alerts, devices and health_data as the database holds them
\* unchanged, and two calls on the same snapshot under the same thresholds
\* return the same severities, categories and messages in the same order.
C14_EvaluatorPure ==
    [][/\ \A w \in Workers : EvaluateStep(w) => Database' = Database
       /\ \A v, w \in Workers :
             (Evaluated(v) /\ Evaluated(w) /\ sessions[v].request = sessions[w].request)
                => Candidates(sessions[v].alerts) = Candidates(sessions[w].alerts)]_vars

\* A step in which worker w commits, and one in which its request fails
CommitStep(w) == sessions[w].pc = "commit" /\ sessions'[w].pc = "done"

FailStep(w) == sessions[w].pc # "failed" /\ sessions'[w].pc = "failed"

RECURSIVE CountOfCommitted(_, _)
\* How often an alert occurs among the alerts made by the committed requests
\* of a set of workers
CountOfCommitted(ws, alert) ==
    IF ws = {} THEN 0
    ELSE LET w == CHOOSE x \in ws : TRUE
         IN (IF sessions[w].pc = "done" THEN Count(sessions[w].alerts, alert) ELSE 0)
            + CountOfCommitted(ws \ {w}, alert)

\* The alerts table holds the alerts of the committed requests, each of them
\* whole, and nothing of any other request
WholeAlertSets ==
    /\ \A i \in DOMAIN alerts :
          Count(alerts, alerts[i]) = CountOfCommitted(Workers, alerts[i])
    /\ \A w \in Workers : \A i \in DOMAIN sessions[w].alerts :
          sessions[w].pc = "done" =>
              Count(alerts, sessions[w].alerts[i])
                = CountOfCommitted(Workers, sessions[w].alerts[i])

\* C16: the health_data row, the last_seen of the device and all alerts of a
\* submission become durable in one step, its commit; a request that fails
\* before or at its commit, and every other step, leaves the three tables
\* as they were, so the alerts table never holds a part of the alerts of
\* one evaluation.
C16_AlertsPersistAsUnit ==
    [][/\ \A w \in Workers :
             CommitStep(w) =>
                 /\ health_data' = Append(health_data, sessions[w].record[1])
                 /\ alerts' = alerts \o sessions[w].alerts
                 /\ \E i \in DOMAIN devices' :
                       /\ devices'[i].machine_id = sessions[w].record[1].machine_id
                       /\ devices'[i].last_seen = sessions[w].last_seen
                       /\ \A j \in DOMAIN devices' \ {i} :
                             j \in DOMAIN devices /\ devices'[j] = devices[j]
       /\ (\A w \in Workers : ~CommitStep(w)) =>
             UNCHANGED <<devices, health_data, alerts>>
       /\ WholeAlertSets']_vars

\* One request committed its two alerts; the other had made an alert and
\* flushed it, failed at the database, and left nothing.
C16_Witness ==
    \E v, w \in Workers :
        /\ sessions[v].pc = "done"
        /\ Len(sessions[v].alerts) = 2
        /\ alerts = sessions[v].alerts
        /\ sessions[w].pc = "failed"
        /\ sessions[w].error = Some("OperationalError")
        /\ Len(sessions[w].alerts) = 1
        /\ Len(health_data) = 1

\* C17: submissions of one machine handled at the same time do not make
\* each other fail or lose alerts, also when the machine is unknown and
\* both add the device: a request fails only when the database itself
\* fails, and the alerts of every request that ended are in the table.
C17_ConcurrentSubmissionsPersist ==
    \A w \in Workers :
        /\ sessions[w].pc = "failed" => sessions[w].error = Some("OperationalError")
        /\ sessions[w].pc = "done" =>
              \A i \in DOMAIN sessions[w].alerts :
                  Count(alerts, sessions[w].alerts[i])
                    >= CountOfCommitted(Workers, sessions[w].alerts[i])

----------------------------------------------------------------------------
(* Properties of the last contact of a device (SpecContact) *)

\* The time of the newest submission stored for a machine
LastSubmission(machine_id) ==
    LET mine == {i \in DOMAIN health_data : health_data[i].machine_id = machine_id}
    IN CHOOSE t \in {health_data[i].timestamp : i \in mine} :
          \A i \in mine : health_data[i].timestamp <= t

\* C20: a successful submit_health for machine m, registered before or not,
\* leaves exactly one devices row of m, active, with last_seen the time of
\* the submission (the clock when the handler took it up); so an overview
\* made at most 15 minutes after the newest submission of m does not report
\* m offline.
C20_SubmissionRenewsContact ==
    [][/\ SubmitStep =>
             LET m == health_data'[last'.id].machine_id
                 rows == {i \in DOMAIN devices' : devices'[i].machine_id = m}
             IN /\ Cardinality(rows) = 1
                /\ \A i \in rows : /\ devices'[i].is_active
                                   /\ devices'[i].last_seen = Some(now)
       /\ (Overview =>
             \A s \in Summaries :
                 (/\ s.latest # None
                  /\ last.at - LastSubmission(s.machine_id) <= STALE_MINUTES)
                     => s.status # "offline")']_vars

\* A device registered at time 0 that submitted at time 15 is not offline
\* in the overview at time 30.
C20_Witness ==
    /\ Overview
    /\ last.at = 30
    /\ \E s \in Summaries :
          /\ s.latest # None
          /\ DeviceOf(s.machine_id).registered_at = Some(0)
          /\ LastSubmission(s.machine_id) = 15
          /\ s.status # "offline"

----------------------------------------------------------------------------
(* Properties of resolving alerts (SpecAlerts) *)

\* C21: in every state an alert is resolved exactly when its resolved_at is
\* set; an alert is created unresolved, without resolved_at; and no step
\* (submit, single resolve, bulk resolve, or any other) makes a resolved
\* alert unresolved again.
C21_ResolvedIffResolvedAt ==
    [][/\ \A i \in DOMAIN alerts' :
             alerts'[i].resolved <=> alerts'[i].resolved_at # None
       /\ \A i \in DOMAIN alerts' \ DOMAIN alerts :
             alerts'[i].resolved = FALSE /\ alerts'[i].resolved_at = None
       /\ \A i \in DOMAIN alerts :
             alerts[i].resolved => (i \in DOMAIN alerts' /\ alerts'[i].resolved)]_vars

\* A submission at time 15 has added an open alert to a table that holds
\* an alert resolved at time 0 and one resolved at time 15.
C21_Witness ==
    /\ last.op = "submit_health"
    /\ Len(alerts) = 3
    /\ alerts[1].resolved /\ alerts[1].resolved_at = Some(0)
    /\ alerts[2].resolved /\ alerts[2].resolved_at = Some(15)
    /\ alerts[3].resolved = FALSE /\ alerts[3].resolved_at = None
    /\ alerts[3].timestamp = 15

\* A step made by resolve_alert
ResolveAlertStep == last'.op = "resolve_alert" /\ now' = now

\* C22: a resolve changes its targets only: resolve_all for device m leaves
\* every alert of another device and every alert of m that was resolved
\* already as it was; resolve_alert for an id leaves every other alert as it
\* was; resolve_alert for an id without a row answers 404 and leaves the
\* whole table as it was.
C22_ResolveChangesOnlyTargets ==
    [][/\ ResolveAllStep =>
             /\ DOMAIN alerts' = DOMAIN alerts
             /\ \A i \in DOMAIN alerts :
                   (alerts[i].machine_id # last'.machine_id \/ alerts[i].resolved)
                       => alerts'[i] = alerts[i]
       /\ ResolveAlertStep =>
             /\ DOMAIN alerts' = DOMAIN alerts
             /\ \A i \in DOMAIN alerts :
                   i # last'.alert_id => alerts'[i] = alerts[i]
             /\ last'.alert_id \notin DOMAIN alerts =>
                   /\ last'.status_code = 404
                   /\ last'.detail = "Alert not found."
                   /\ alerts' = alerts
             /\ last'.alert_id \in DOMAIN alerts => last'.status_code = 200]_vars

\* A bulk resolve of m1 at time 15 resolved one alert; an alert of m1
\* resolved at time 0 kept its resolved_at and the alert of the other
\* machine is still open.
C22_Witness ==
    /\ last.op = "resolve_all"
    /\ last.machine_id = "m1"
    /\ last.count = 1
    /\ now = 15
    /\ \E i, j, k \in DOMAIN alerts :
          /\ alerts[i].machine_id = "m1" /\ alerts[i].resolved_at = Some(0)
          /\ alerts[j].machine_id = "m1" /\ alerts[j].resolved_at = Some(15)
          /\ alerts[k].machine_id # "m1" /\ alerts[k].resolved = FALSE

----------------------------------------------------------------------------
(* Properties of the dashboard next to the alert table (SpecAlerts) *)

\* The status that follows from the last contact, the time of the overview
\* and the latest snapshot of a summary, and from nothing else
StatusWithoutAlerts(s) ==
    IF ~NonStale(s) THEN "offline"
    ELSE IF s.latest = None THEN "healthy"
    ELSE IF CriticalCondition(s.latest[1]) THEN "critical"
    ELSE IF WarningCondition(s.latest[1]) THEN "warning"
    ELSE "healthy"

SameSnapshot(a, b) ==
    /\ a.cpu_percent = b.cpu_percent
    /\ a.memory_percent = b.memory_percent
    /\ a.disk_percent = b.disk_percent
    /\ a.battery_percent = b.battery_percent
    /\ a.threat_score = b.threat_score

\* C23: the status of a device does not depend on its alerts: in every
\* overview it is the status that its last contact and latest snapshot give,
\* whatever alerts were made, resolved or resolved in bulk; two devices with
\* the same last contact and the same latest snapshot have the same status
\* whatever their open alerts; and a device whose latest snapshot is
\* cpu-critical is critical also with no open alert left.
C23_StatusIgnoresAlerts ==
    Overview =>
        /\ \A s \in Summaries : s.status = StatusWithoutAlerts(s)
        /\ \A s, t \in Summaries :
              (/\ s.last_seen = t.last_seen
               /\ s.latest # None /\ t.latest # None
               /\ SameSnapshot(s.latest[1], t.latest[1]))
                  => s.status = t.status
        /\ \A s \in Summaries :
              (/\ NonStale(s)
               /\ s.latest # None
               /\ s.latest[1].cpu_percent >= settings.CPU_CRITICAL
               /\ s.open_alerts = 0)
                  => s.status = "critical"

\* One overview: a device reported healthy with two open critical alerts
\* (memory and battery) from its latest snapshot, and a device with a
\* cpu-critical latest snapshot reported critical after its alert was
\* resolved.
C23_Witness ==
    /\ Overview
    /\ \E s, t \in Summaries :
          /\ s.status = "healthy"
          /\ s.open_alerts = 2
          /\ s.latest[1].memory_percent >= settings.MEMORY_CRITICAL
          /\ \A i \in DOMAIN alerts :
                alerts[i].machine_id = s.machine_id => alerts[i].severity = "critical"
          /\ t.status = "critical"
          /\ t.open_alerts = 0
          /\ t.latest[1].cpu_percent >= settings.CPU_CRITICAL
          /\ \E i \in DOMAIN alerts :
                alerts[i].machine_id = t.machine_id /\ alerts[i].resolved

----------------------------------------------------------------------------
(* Properties of the devices table under requests in progress (SpecRegistry) *)

\* Every committed alert has a devices row, and no two devices rows share
\* a machine_id
AlertsHaveOneDevice ==
    /\ \A i \in DOMAIN alerts :
          \E j \in DOMAIN devices : devices[j].machine_id = alerts[i].machine_id
    /\ \A i, j \in DOMAIN devices :
          i # j => devices[i].machine_id # devices[j].machine_id

\* A session holds alerts only when its device was found or has been
\* inserted by it
DeviceBeforeAlerts ==
    \A w \in Workers :
        (sessions[w].pending.alerts # <<>> \/ sessions[w].written.alerts # <<>>)
            => (sessions[w].device # None \/ sessions[w].written.devices # <<>>)

\* C24: in every committed state every alert's machine_id is that of a
\* devices row and no machine_id has two rows: submit_health inserts the
\* device of an unknown machine before it adds alerts, and no step removes
\* a devices row or changes its machine_id.
C24_AlertsReferToOneDevice ==
    [][/\ AlertsHaveOneDevice'
       /\ DeviceBeforeAlerts'
       /\ \A i \in DOMAIN devices :
             /\ i \in DOMAIN devices'
             /\ devices'[i].machine_id = devices[i].machine_id]_vars

\* Two submissions of an unknown machine both committed their alerts: the
\* first inserted the device, the second found it; there is one row.
C24_Witness ==
    \E v, w \in Workers :
        /\ sessions[v].pc = "done" /\ sessions[v].device = None
        /\ sessions[w].pc = "done" /\ sessions[w].device = Some(1)
        /\ sessions[v].alerts # <<>> /\ sessions[w].alerts # <<>>
        /\ Len(devices) = 1
        /\ Len(alerts) = Len(sessions[v].alerts) + Len(sessions[w].alerts)

====
